---- MODULE Spec2Model ----
(***************************************************************************)
(* Model of automatic_annotation.py: the three-stage pipeline              *)
(*   extract_from_seurat -> gene_annotation -> i_m_annotating               *)
(* run by the __main__ block.                                               *)
(*                                                                          *)
(* A Python str is a sequence of one-character strings, so that splitting,  *)
(* quote stripping, upper-casing, float parsing, '.' -> ',' replacement and *)
(* csv quoting are computed character by character.  A file is what         *)
(* readlines() returns: a sequence of lines, each ending in "\n".           *)
(***************************************************************************)
EXTENDS Integers, Sequences, FiniteSets, TLC

VARIABLES
    pc,                        \* position in the __main__ block
    cluster_file,              \* data/annotation/integrated_top10_genes_per_cluster.csv
    annot_file,                \* data/annotation/rna_single_cell_type.tsv
    out_file,                  \* genes_per_cluster_w_cell_type.tsv
    stdout,                    \* what print() has written
    err,                       \* the uncaught exception, "" when none
    genes,                     \* __main__: genes
    all_content,               \* __main__: all_content
    genes_tissues,             \* __main__: genes_tissues
    final_list,                \* i_m_annotating: final_list
    final_list_excel_version   \* i_m_annotating: final_list_excel_version

vars == <<pc, cluster_file, annot_file, out_file, stdout, err, genes,
          all_content, genes_tissues, final_list, final_list_excel_version>>

----------------------------------------------------------------------------
(* Bounds of the model. *)

MaxClusterRows == 2
MaxRefRows == 2

(* Program constants. *)

GeneIdx == 7          \* line[7]
ClusterIdx == 6       \* line[6]
PvalueIdx == 5        \* line[5]
RefGeneIdx == 1       \* line[1]
RefCellTypeIdx == 2   \* line[2]
RefExprIdx == 3       \* line[3]
Threshold == 1        \* float(line[3]) >= 1

----------------------------------------------------------------------------
(* Characters and strings. *)

Quote == "\""
Comma == ","
Tab == "\t"
NL == "\n"
CR == "\r"
Dot == "."

Digits == {"0", "1", "2", "3", "4", "5", "6", "7", "8", "9"}

DigitVal(c) ==
    CASE c = "0" -> 0 [] c = "1" -> 1 [] c = "2" -> 2 [] c = "3" -> 3
      [] c = "4" -> 4 [] c = "5" -> 5 [] c = "6" -> 6 [] c = "7" -> 7
      [] c = "8" -> 8 [] c = "9" -> 9

\* str.upper() on one character of the model's alphabet
UpperChar(c) ==
    CASE c = "a" -> "A" [] c = "b" -> "B" [] c = "c" -> "C" [] c = "d" -> "D"
      [] c = "o" -> "O" [] c = "x" -> "X" [] OTHER -> c

\* gene.upper()
Upper(s) == [i \in 1..Len(s) |-> UpperChar(s[i])]

\* list indexing: a 0-based index i is in range of sequence s
InRange(s, i) == i + 1 <= Len(s)

\* s[i] with Python's 0-based index
At(s, i) == s[i + 1]

\* elm.startswith('"')
StartsWithQuote(elm) == Len(elm) >= 1 /\ elm[1] = Quote

\* elm.endswith('"')
EndsWithQuote(elm) == Len(elm) >= 1 /\ elm[Len(elm)] = Quote

\* variant of Unquote: 'or' in place of 'and'
Unquote_Either(elm) ==
    IF StartsWithQuote(elm) \/ EndsWithQuote(elm)
    THEN SubSeq(elm, 2, Len(elm) - 1)
    ELSE elm

\* elm[1:-1] if elm.startswith('"') and elm.endswith('"') else elm
Unquote(elm) ==
    IF StartsWithQuote(elm) /\ EndsWithQuote(elm)
    THEN SubSeq(elm, 2, Len(elm) - 1)
    ELSE elm

\* [elm[1:-1] if ... else elm for elm in line]
UnquoteLine(line) == [i \in 1..Len(line) |-> Unquote(line[i])]

RECURSIVE LStripNL(_)
LStripNL(s) == IF Len(s) >= 1 /\ s[1] = NL THEN LStripNL(Tail(s)) ELSE s

RECURSIVE RStripNL(_)
RStripNL(s) ==
    IF Len(s) >= 1 /\ s[Len(s)] = NL THEN RStripNL(SubSeq(s, 1, Len(s) - 1)) ELSE s

\* x.strip('\n')
StripNL(s) == RStripNL(LStripNL(s))

RECURSIVE SplitFrom(_, _, _, _, _)
SplitFrom(s, sep, i, cur, out) ==
    IF i > Len(s) THEN Append(out, cur)
    ELSE IF s[i] = sep THEN SplitFrom(s, sep, i + 1, <<>>, Append(out, cur))
    ELSE SplitFrom(s, sep, i + 1, Append(cur, s[i]), out)

\* x.split(sep)
Split(s, sep) == SplitFrom(s, sep, 1, <<>>, <<>>)

\* [x.strip('\n').split(sep) for x in f.readlines()][1:]
ReadTable(lines, sep) ==
    LET all == [i \in 1..Len(lines) |-> Split(StripNL(lines[i]), sep)]
    IN  IF Len(all) = 0 THEN <<>> ELSE Tail(all)

\* float(s) accepts s: over the model's alphabet, digits with at most one '.'
\* and at least one digit
FloatOk(s) ==
    /\ \A i \in 1..Len(s) : s[i] \in Digits \cup {Dot}
    /\ Cardinality({i \in 1..Len(s) : s[i] = Dot}) <= 1
    /\ \E i \in 1..Len(s) : s[i] \in Digits

RECURSIVE DigitsVal(_, _, _)
DigitsVal(s, i, acc) ==
    IF i > Len(s) THEN acc
    ELSE IF s[i] = Dot THEN DigitsVal(s, i + 1, acc)
    ELSE DigitsVal(s, i + 1, 10 * acc + DigitVal(s[i]))

RECURSIVE Pow10(_)
Pow10(n) == IF n = 0 THEN 1 ELSE 10 * Pow10(n - 1)

\* float(s) as the exact decimal num / den
Float(s) ==
    LET dots == {i \in 1..Len(s) : s[i] = Dot}
        frac == IF dots = {} THEN 0 ELSE Len(s) - (CHOOSE i \in dots : TRUE)
    IN  [num |-> DigitsVal(s, 1, 0), den |-> Pow10(frac)]

\* variant of FloatGe: '>' in place of '>='
FloatGt(f, n) == f.num > n * f.den

\* float(line[3]) >= 1
FloatGe(f, n) == f.num >= n * f.den

\* gene[2].replace('.', ',')
ReplaceDot(s) == [i \in 1..Len(s) |-> IF s[i] = Dot THEN Comma ELSE s[i]]

----------------------------------------------------------------------------
(* extract_from_seurat *)

RECURSIVE ExtractLoop(_, _, _)
ExtractLoop(content, i, only_genes) ==
    IF i > Len(content)
    THEN [err |-> "", only_genes |-> only_genes, content |-> content]
    ELSE LET line == UnquoteLine(content[i])
         IN  IF ~InRange(line, GeneIdx)
             THEN [err |-> "IndexError", only_genes |-> <<>>, content |-> <<>>]
             ELSE ExtractLoop(content, i + 1, Append(only_genes, At(line, GeneIdx)))

\* variant of extract_from_seurat: lines too short to hold a gene are skipped
extract_from_seurat_lenient(file) ==
    IF ~file.exists
    THEN [err |-> "FileNotFoundError", only_genes |-> <<>>, content |-> <<>>]
    ELSE ExtractLoop(SelectSeq(ReadTable(file.lines, Comma),
                               LAMBDA l : InRange(l, GeneIdx)), 1, <<>>)

extract_from_seurat(file) ==
    IF ~file.exists
    THEN [err |-> "FileNotFoundError", only_genes |-> <<>>, content |-> <<>>]
    ELSE ExtractLoop(ReadTable(file.lines, Comma), 1, <<>>)

----------------------------------------------------------------------------
(* gene_annotation *)

\* variant of GeneMatches: both sides upper-cased
GeneMatches_IgnoreCase(gene, line) == Upper(gene) = Upper(At(line, RefGeneIdx))

\* gene_upper == line[1]
GeneMatches(gene, line) == Upper(gene) = At(line, RefGeneIdx)

\* [gene, line[2], line[3]]
AnnotationRow(gene, line) == <<gene, At(line, RefCellTypeIdx), At(line, RefExprIdx)>>

RECURSIVE AnnotateLoop(_, _, _, _, _)
AnnotateLoop(content, gene_list, i, j, gene_ct_ntpm) ==
    IF i > Len(gene_list)
    THEN [err |-> "", rows |-> gene_ct_ntpm]
    ELSE IF j > Len(content)
    THEN AnnotateLoop(content, gene_list, i + 1, 1, gene_ct_ntpm)
    ELSE LET gene == gene_list[i]
             line == content[j]
         IN  IF ~InRange(line, RefGeneIdx)
             THEN [err |-> "IndexError", rows |-> <<>>]
             ELSE IF ~GeneMatches(gene, line)
             THEN AnnotateLoop(content, gene_list, i, j + 1, gene_ct_ntpm)
             ELSE IF ~InRange(line, RefExprIdx)
             THEN [err |-> "IndexError", rows |-> <<>>]
             ELSE IF ~FloatOk(At(line, RefExprIdx))
             THEN [err |-> "ValueError", rows |-> <<>>]
             ELSE IF FloatGe(Float(At(line, RefExprIdx)), Threshold)
             THEN AnnotateLoop(content, gene_list, i, j + 1,
                               Append(gene_ct_ntpm, AnnotationRow(gene, line)))
             ELSE AnnotateLoop(content, gene_list, i, j + 1, gene_ct_ntpm)

\* variant of gene_annotation: the expression column is parsed for every row
\* while the table is read
gene_annotation_eager(file, gene_list) ==
    IF ~file.exists
    THEN [err |-> "FileNotFoundError", rows |-> <<>>]
    ELSE LET content == ReadTable(file.lines, Tab)
         IN  IF \E j \in 1..Len(content) :
                    InRange(content[j], RefExprIdx)
                        /\ ~FloatOk(At(content[j], RefExprIdx))
             THEN [err |-> "ValueError", rows |-> <<>>]
             ELSE AnnotateLoop(content, gene_list, 1, 1, <<>>)

RECURSIVE AnnotateLoopRefMajor(_, _, _, _, _)
AnnotateLoopRefMajor(content, gene_list, j, i, gene_ct_ntpm) ==
    IF j > Len(content)
    THEN [err |-> "", rows |-> gene_ct_ntpm]
    ELSE IF i > Len(gene_list)
    THEN AnnotateLoopRefMajor(content, gene_list, j + 1, 1, gene_ct_ntpm)
    ELSE LET gene == gene_list[i]
             line == content[j]
         IN  IF ~InRange(line, RefGeneIdx)
             THEN [err |-> "IndexError", rows |-> <<>>]
             ELSE IF ~GeneMatches(gene, line)
             THEN AnnotateLoopRefMajor(content, gene_list, j, i + 1, gene_ct_ntpm)
             ELSE IF ~InRange(line, RefExprIdx)
             THEN [err |-> "IndexError", rows |-> <<>>]
             ELSE IF ~FloatOk(At(line, RefExprIdx))
             THEN [err |-> "ValueError", rows |-> <<>>]
             ELSE IF FloatGe(Float(At(line, RefExprIdx)), Threshold)
             THEN AnnotateLoopRefMajor(content, gene_list, j, i + 1,
                                       Append(gene_ct_ntpm, AnnotationRow(gene, line)))
             ELSE AnnotateLoopRefMajor(content, gene_list, j, i + 1, gene_ct_ntpm)

\* variant of gene_annotation: the reference rows in the outer loop, the genes
\* in the inner one
gene_annotation_ref_major(file, gene_list) ==
    IF ~file.exists
    THEN [err |-> "FileNotFoundError", rows |-> <<>>]
    ELSE AnnotateLoopRefMajor(ReadTable(file.lines, Tab), gene_list, 1, 1, <<>>)

RECURSIVE Dedup(_)
Dedup(s) ==
    IF s = <<>> THEN <<>>
    ELSE LET d == Dedup(SubSeq(s, 1, Len(s) - 1))
         IN  IF \E n \in 1..Len(d) : d[n] = s[Len(s)] THEN d ELSE Append(d, s[Len(s)])

\* variant of gene_annotation: each distinct gene symbol is looked up once
gene_annotation_dedup(file, gene_list) ==
    IF ~file.exists
    THEN [err |-> "FileNotFoundError", rows |-> <<>>]
    ELSE AnnotateLoop(ReadTable(file.lines, Tab), Dedup(gene_list), 1, 1, <<>>)

gene_annotation(file, gene_list) ==
    IF ~file.exists
    THEN [err |-> "FileNotFoundError", rows |-> <<>>]
    ELSE AnnotateLoop(ReadTable(file.lines, Tab), gene_list, 1, 1, <<>>)

----------------------------------------------------------------------------
(* i_m_annotating *)

\* variant of JoinMatches: both sides upper-cased
JoinMatches_IgnoreCase(line, gene) == Upper(At(line, GeneIdx)) = Upper(At(gene, 0))

\* line[7] == gene[0]
JoinMatches(line, gene) == At(line, GeneIdx) = At(gene, 0)

\* [line[6], line[7], str(line[5]), gene[1], float(gene[2])]
MergedRow(line, gene) ==
    <<At(line, ClusterIdx), At(line, GeneIdx), At(line, PvalueIdx),
      At(gene, 1), Float(At(gene, 2))>>

\* [line[6], line[7], str(line[5]), gene[1], gene[2].replace('.', ',')]
MergedRowExcel(line, gene) ==
    <<At(line, ClusterIdx), At(line, GeneIdx), At(line, PvalueIdx),
      At(gene, 1), ReplaceDot(At(gene, 2))>>

RECURSIVE MergeLoop(_, _, _, _, _, _)
MergeLoop(genes_tissue_list, genes_clusters, i, j, fl, flx) ==
    IF i > Len(genes_clusters)
    THEN [err |-> "", final_list |-> fl, final_list_excel_version |-> flx]
    ELSE IF j > Len(genes_tissue_list)
    THEN MergeLoop(genes_tissue_list, genes_clusters, i + 1, 1, fl, flx)
    ELSE LET line == UnquoteLine(genes_clusters[i])
             gene == genes_tissue_list[j]
         IN  IF ~InRange(line, GeneIdx) \/ ~InRange(gene, 0)
             THEN [err |-> "IndexError", final_list |-> <<>>,
                   final_list_excel_version |-> <<>>]
             ELSE IF ~JoinMatches(line, gene)
             THEN MergeLoop(genes_tissue_list, genes_clusters, i, j + 1, fl, flx)
             ELSE IF ~InRange(gene, 2)
             THEN [err |-> "IndexError", final_list |-> <<>>,
                   final_list_excel_version |-> <<>>]
             ELSE IF ~FloatOk(At(gene, 2))
             THEN [err |-> "ValueError", final_list |-> <<>>,
                   final_list_excel_version |-> <<>>]
             ELSE MergeLoop(genes_tissue_list, genes_clusters, i, j + 1,
                            Append(fl, MergedRow(line, gene)),
                            Append(flx, MergedRowExcel(line, gene)))

\* csv.writer, QUOTE_MINIMAL: a field holding the delimiter, the quote character
\* or a line-terminator character is quoted, its quotes doubled
NeedsQuoting(field) == \E i \in 1..Len(field) : field[i] \in {Tab, Quote, CR, NL}

RECURSIVE DoubleQuotes(_)
DoubleQuotes(field) ==
    IF field = <<>> THEN <<>>
    ELSE (IF Head(field) = Quote THEN <<Quote, Quote>> ELSE <<Head(field)>>)
         \o DoubleQuotes(Tail(field))

CsvField(field) ==
    IF NeedsQuoting(field) THEN <<Quote>> \o DoubleQuotes(field) \o <<Quote>>
    ELSE field

RECURSIVE CsvJoin(_)
CsvJoin(row) ==
    IF Len(row) = 0 THEN <<>>
    ELSE IF Len(row) = 1 THEN CsvField(row[1])
    ELSE CsvField(row[1]) \o <<Tab>> \o CsvJoin(Tail(row))

\* content.writerow(row), lineterminator '\r\n'
CsvLine(row) == CsvJoin(row) \o <<CR, NL>>

\* content.writerows(rows) into a file opened with 'w': the whole new text
RECURSIVE CsvText(_)
CsvText(rows) == IF rows = <<>> THEN <<>> ELSE CsvLine(Head(rows)) \o CsvText(Tail(rows))

\* variant of WriteOutput: nothing is written when there is no row
WriteOutput_UnlessEmpty(old, rows) ==
    IF rows = <<>> THEN old ELSE [exists |-> TRUE, text |-> CsvText(rows)]

\* with open('genes_per_cluster_w_cell_type.tsv', 'w', newline='') as f_output:
\*     csv.writer(f_output, delimiter='\t').writerows(final_list_excel_version)
WriteOutput(old, rows) == [exists |-> TRUE, text |-> CsvText(rows)]

i_m_annotating(genes_tissue_list, genes_clusters) ==
    MergeLoop(genes_tissue_list, genes_clusters, 1, 1, <<>>, <<>>)

----------------------------------------------------------------------------
(* Inputs: the two files as readlines() returns them, and the output file    *)
(* as the previous run left it.                                              *)

RECURSIVE JoinFields(_, _)
JoinFields(fields, sep) ==
    IF Len(fields) = 0 THEN <<>>
    ELSE IF Len(fields) = 1 THEN fields[1]
    ELSE fields[1] \o <<sep>> \o JoinFields(Tail(fields), sep)

TextLine(fields, sep) == JoinFields(fields, sep) \o <<NL>>

Quoted(s) == <<Quote>> \o s \o <<Quote>>

X == <<"x">>
Prefix == <<X, X, X, X, X>>

ClusterHeader == TextLine(<<X, X, X>>, Comma)

ClusterRowFields ==
    { Prefix \o <<<<"5">>, <<"c">>, <<"A">>>>,
      Prefix \o <<Quoted(<<"5">>), Quoted(<<"d">>), Quoted(<<"A">>)>>,
      Prefix \o <<<<"5">>, <<Quote, "c">>, <<"a">>, X>>,
      Prefix \o <<<<"5">>, <<"c">>, <<Quote, "A">>>>,
      Prefix \o <<<<"5">>, <<"c">>, <<Quote>>>>,
      <<X, X, X>> }

ClusterLines == {TextLine(r, Comma) : r \in ClusterRowFields}

RefHeader == TextLine(<<X>>, Tab)

RefRowFields ==
    { <<X, <<"A">>, <<"T">>, <<"2">>>>,
      <<X, <<"A">>, <<"M">>, <<"1", ".", "0">>>>,
      <<X, <<"A">>, <<"T">>, <<"0", ".", "5">>>>,
      <<X, <<"A">>, <<"M">>, <<"x">>>>,
      <<X, <<"a">>, <<"T">>, <<"2", ".", "5">>>> }

RefLines == {TextLine(r, Tab) : r \in RefRowFields}

SeqsUpTo(S, n) == UNION {[1..k -> S] : k \in 0..n}

Missing == [exists |-> FALSE, lines |-> <<>>]

ClusterFiles ==
    {Missing} \cup
    {[exists |-> TRUE, lines |-> <<ClusterHeader>> \o rows] :
        rows \in SeqsUpTo(ClusterLines, MaxClusterRows)}

AnnotFiles ==
    {Missing} \cup
    {[exists |-> TRUE, lines |-> <<RefHeader>> \o rows] :
        rows \in SeqsUpTo(RefLines, MaxRefRows)}

NoFile == [exists |-> FALSE, text |-> <<>>]
OldFile == [exists |-> TRUE, text |-> <<"o", CR, NL>>]

----------------------------------------------------------------------------
(* The __main__ block. *)

Init ==
    /\ pc = "start"
    /\ cluster_file \in ClusterFiles
    /\ annot_file \in AnnotFiles
    /\ out_file \in {NoFile, OldFile}
    /\ stdout = <<>>
    /\ err = ""
    /\ genes = <<>>
    /\ all_content = <<>>
    /\ genes_tissues = <<>>
    /\ final_list = <<>>
    /\ final_list_excel_version = <<>>

\* print('start')
PrintStart ==
    /\ pc = "start"
    /\ stdout' = Append(stdout, "start")
    /\ pc' = "extract"
    /\ UNCHANGED <<cluster_file, annot_file, out_file, err, genes, all_content,
                   genes_tissues, final_list, final_list_excel_version>>

\* genes, all_content = extract_from_seurat(...)
CallExtract ==
    /\ pc = "extract"
    /\ LET r == extract_from_seurat(cluster_file)
       IN  /\ err' = r.err
           /\ genes' = r.only_genes
           /\ all_content' = r.content
           /\ pc' = IF r.err = "" THEN "annotate" ELSE "aborted"
    /\ UNCHANGED <<cluster_file, annot_file, out_file, stdout, genes_tissues,
                   final_list, final_list_excel_version>>

\* genes_tissues = gene_annotation(..., genes)
CallAnnotate ==
    /\ pc = "annotate"
    /\ LET r == gene_annotation(annot_file, genes)
       IN  /\ err' = r.err
           /\ genes_tissues' = r.rows
           /\ pc' = IF r.err = "" THEN "merge" ELSE "aborted"
    /\ UNCHANGED <<cluster_file, annot_file, out_file, stdout, genes, all_content,
                   final_list, final_list_excel_version>>

\* i_m_annotating(genes_tissues, all_content)
CallMerge ==
    /\ pc = "merge"
    /\ LET r == i_m_annotating(genes_tissues, all_content)
       IN  /\ err' = r.err
           /\ final_list' = r.final_list
           /\ final_list_excel_version' = r.final_list_excel_version
           /\ out_file' = IF r.err = ""
                          THEN WriteOutput(out_file, r.final_list_excel_version)
                          ELSE out_file
           /\ pc' = IF r.err = "" THEN "end" ELSE "aborted"
    /\ UNCHANGED <<cluster_file, annot_file, stdout, genes, all_content,
                   genes_tissues>>

\* print('end')
PrintEnd ==
    /\ pc = "end"
    /\ stdout' = Append(stdout, "end")
    /\ pc' = "done"
    /\ UNCHANGED <<cluster_file, annot_file, out_file, err, genes, all_content,
                   genes_tissues, final_list, final_list_excel_version>>

Next == PrintStart \/ CallExtract \/ CallAnnotate \/ CallMerge \/ PrintEnd

Spec == Init /\ [][Next]_vars

----------------------------------------------------------------------------
(* Vocabulary of the properties.  The inputs are read back from the files'   *)
(* text through the field tuples they were built from, not through Split.    *)

\* the stages that have returned without raising
Extracted == pc \in {"annotate", "merge", "end", "done"}
Annotated == pc \in {"merge", "end", "done"}
Merged == pc \in {"end", "done"}

ClusterFieldsOf ==
    [t \in ClusterLines |-> CHOOSE r \in ClusterRowFields : TextLine(r, Comma) = t]
RefFieldsOf ==
    [t \in RefLines |-> CHOOSE r \in RefRowFields : TextLine(r, Tab) = t]

\* the data lines of the two input files, as field tuples, header left out
CRows ==
    IF cluster_file.exists
    THEN [i \in 1..(Len(cluster_file.lines) - 1) |->
             ClusterFieldsOf[cluster_file.lines[i + 1]]]
    ELSE <<>>

RRows ==
    IF annot_file.exists
    THEN [j \in 1..(Len(annot_file.lines) - 1) |->
             RefFieldsOf[annot_file.lines[j + 1]]]
    ELSE <<>>

\* a field with its outer pair of double quotes removed; a field that is one
\* lone double quote both starts and ends with it and becomes empty
StripQ(f) ==
    IF Len(f) >= 2 /\ f[1] = Quote /\ f[Len(f)] = Quote
    THEN [k \in 1..(Len(f) - 2) |-> f[k + 1]]
    ELSE IF f = <<Quote>> THEN <<>> ELSE f

\* the gene symbol of a cluster row (field 7, quote-stripped)
CGene(crow) == StripQ(crow[8])

\* the gene symbol in capitals
AllCaps(g) == [k \in 1..Len(g) |-> IF g[k] = "a" THEN "A" ELSE g[k]]

\* the gene symbol in small letters
AllSmall(g) == [k \in 1..Len(g) |-> IF g[k] = "A" THEN "a" ELSE g[k]]

\* the value of an expression string of the reference file in tenths,
\* -1 when it is no number
Tenths(e) ==
    CASE e = <<"2", ".", "5">> -> 25
      [] e = <<"1", ".", "0">> -> 10
      [] e = <<"0", ".", "5">> -> 5
      [] e = <<"2">> -> 20
      [] OTHER -> -1

\* a reference row with all four fields and an expression of at least 1.0
Expressed(rrow) == Len(rrow) >= 4 /\ Tenths(rrow[4]) >= 10

\* a reference row with an expression field that is no number
Unparseable(rrow) == Len(rrow) >= 4 /\ Tenths(rrow[4]) < 0

\* the reference row qualifies for gene symbol g as the code matches it
Qualifies(g, rrow) == Expressed(rrow) /\ rrow[2] = AllCaps(g)

\* m: the number of qualifying reference rows of gene symbol g
M(rr, g) == Cardinality({j \in 1..Len(rr) : Qualifies(g, rr[j])})

\* k: the number of cluster rows that spell the gene g
K(cr, g) == Cardinality({i \in 1..Len(cr) : Len(cr[i]) >= 8 /\ CGene(cr[i]) = g})

\* the number of rows of a list whose field f (1-based) is g
CountField(rows, f, g) == Cardinality({n \in 1..Len(rows) : rows[n][f] = g})

\* the position of pair p among the pairs P taken in lexicographic order
Rank(p, P) ==
    1 + Cardinality({q \in P : q[1] < p[1] \/ (q[1] = p[1] /\ q[2] < p[2])})

\* every data line of the cluster file has at least 8 fields
ClusterShapeOk ==
    /\ cluster_file.exists
    /\ LET cr == CRows IN \A i \in 1..Len(cr) : Len(cr[i]) >= 8

----------------------------------------------------------------------------
\* C7: for a cluster file with a header and N data lines of at least 8 fields,
\* extract_from_seurat returns N gene symbols and N raw rows in file order, the
\* header discarded; gene i is field 7 of data line i with its outer quotes
\* removed when both are present, and raw row i keeps its fields unstripped.
C7_ExtractionCorrect ==
    (pc \notin {"start", "extract"} /\ ClusterShapeOk) =>
        LET cr == CRows
        IN  /\ Len(genes) = Len(cr)
            /\ Len(all_content) = Len(cr)
            /\ \A i \in 1..Len(cr) :
                  /\ genes[i] = StripQ(cr[i][8])
                  /\ all_content[i] = cr[i]

C7_Witness ==
    /\ pc = "annotate"
    /\ Len(CRows) = 2
    /\ CRows[1][8] = Quoted(<<"A">>) /\ genes[1] = <<"A">>
    /\ CRows[2][8] = <<Quote, "A">> /\ genes[2] = <<Quote, "A">>
    /\ all_content[1][8] = Quoted(<<"A">>)

\* C7: the field that is one lone double quote
C7_LoneQuoteWitness ==
    /\ pc = "annotate"
    /\ Len(CRows) = 1
    /\ CRows[1][8] = <<Quote>> /\ genes[1] = <<>>

\* C8: gene_annotation's rows are grouped by position in the input gene list
\* and, within one position, in reference-file order; each row is
\* [gene as passed in, reference field 2, reference field 3].
C8_AnnotationOrder ==
    Annotated =>
        LET rr == RRows
            pairs == {p \in (1..Len(genes)) \X (1..Len(rr)) :
                         Qualifies(genes[p[1]], rr[p[2]])}
        IN  /\ Len(genes_tissues) = Cardinality(pairs)
            /\ \A p \in pairs :
                  genes_tissues[Rank(p, pairs)] =
                      <<genes[p[1]], rr[p[2]][3], rr[p[2]][4]>>

C8_Witness ==
    /\ pc = "merge"
    /\ Len(genes) = 2 /\ genes[1] = <<"a">> /\ genes[2] = <<"A">>
    /\ Len(RRows) = 2
    /\ Len(genes_tissues) = 4
    /\ genes_tissues[1] = <<<<"a">>, <<"M">>, <<"1", ".", "0">>>>
    /\ genes_tissues[2] = <<<<"a">>, <<"T">>, <<"2">>>>
    /\ genes_tissues[3] = <<<<"A">>, <<"M">>, <<"1", ".", "0">>>>

----------------------------------------------------------------------------
\* C1 (as stated): in a full run, a gene with m qualifying reference rows that
\* appears in k cluster rows yields exactly k * m MergedRows.
C1_KTimesM ==
    pc = "done" =>
        LET cr == CRows
            rr == RRows
        IN  \A i \in 1..Len(cr) :
                CountField(final_list, 2, CGene(cr[i])) =
                    K(cr, CGene(cr[i])) * M(rr, CGene(cr[i]))

\* C2 (as stated): matching is case-insensitive: every reference row with
\* expression >= 1.0 whose gene equals an input gene ignoring case produces an
\* AnnotationRow for that gene.
C2_CaseInsensitiveMatch ==
    Annotated =>
        LET rr == RRows
        IN  \A i \in 1..Len(genes), j \in 1..Len(rr) :
                (Expressed(rr[j]) /\ AllSmall(rr[j][2]) = AllSmall(genes[i])) =>
                    \E n \in 1..Len(genes_tissues) :
                        genes_tissues[n] = <<genes[i], rr[j][3], rr[j][4]>>

\* C2 (amended): a reference row with expression >= 1.0 produces an
\* AnnotationRow for input gene g exactly when its gene field equals g in
\* capitals, character for character; the reference field is not case-folded.
C2_UpperCasedInputMatch ==
    Annotated =>
        LET rr == RRows
        IN  \A i \in 1..Len(genes), j \in 1..Len(rr) :
                Expressed(rr[j]) =>
                    ((\E n \in 1..Len(genes_tissues) :
                         genes_tissues[n] = <<genes[i], rr[j][3], rr[j][4]>>)
                     <=> rr[j][2] = AllCaps(genes[i]))

C2_Witness ==
    /\ pc = "merge"
    /\ \E i \in 1..Len(genes), j1, j2 \in 1..Len(RRows) :
          /\ genes[i] = <<"a">>
          /\ RRows[j1][2] = <<"A">> /\ Expressed(RRows[j1])
          /\ RRows[j2][2] = <<"a">> /\ Expressed(RRows[j2])
    /\ Len(genes_tissues) = 1
    /\ genes_tissues[1][1] = <<"a">>

\* C3: no AnnotationRow comes from a reference row with expression < 1.0, a
\* gene-matching row with expression exactly 1.0 does produce one, and every
\* MergedRow written carries an expression >= 1.0.
C3_ThresholdInclusive ==
    /\ Annotated =>
          LET rr == RRows
          IN  /\ \A n \in 1..Len(genes_tissues) : Tenths(genes_tissues[n][3]) >= 10
              /\ \A i \in 1..Len(genes), j \in 1..Len(rr) :
                    (Len(rr[j]) >= 4 /\ Tenths(rr[j][4]) = 10
                       /\ rr[j][2] = AllCaps(genes[i])) =>
                        \E n \in 1..Len(genes_tissues) :
                            genes_tissues[n] = <<genes[i], rr[j][3], rr[j][4]>>
    /\ Merged =>
          /\ Len(final_list_excel_version) = Len(final_list)
          /\ \A n \in 1..Len(final_list) :
                /\ final_list[n][5].num >= final_list[n][5].den
                /\ final_list_excel_version[n][5] \in
                       {<<"2", ",", "5">>, <<"1", ",", "0">>, <<"2">>}

C3_Witness ==
    /\ pc = "done"
    /\ Len(RRows) = 2 /\ Len(RRows[1]) = 4 /\ Len(RRows[2]) = 4
    /\ Tenths(RRows[1][4]) = 5 /\ Tenths(RRows[2][4]) = 10
    /\ Len(genes) = 1 /\ genes[1] = <<"A">>
    /\ Len(final_list) = 1
    /\ final_list[1][5].num = final_list[1][5].den
    /\ final_list_excel_version[1][5] = <<"1", ",", "0">>

\* some reference row with an unparseable expression has the gene field of
\* some input gene in capitals
BadRowHit ==
    LET rr == RRows
    IN  \E i \in 1..Len(genes), j \in 1..Len(rr) :
            Unparseable(rr[j]) /\ rr[j][2] = AllCaps(genes[i])

\* C4 (as stated): with a non-empty gene list, any reference row with an
\* unparseable expression aborts gene_annotation, whether or not its gene
\* field matches an input gene.
C4_AnyBadRowAborts ==
    (Annotated /\ Len(genes) > 0) =>
        LET rr == RRows IN \A j \in 1..Len(rr) : ~Unparseable(rr[j])

\* C4 (amended): a reference row with an unparseable expression aborts
\* gene_annotation when its gene field equals some input gene in capitals, and
\* the parse failure arises from such a row only; an unparseable row whose
\* gene field matches no input gene is skipped.
C4_MatchingBadRowAborts ==
    /\ Annotated => ~BadRowHit
    /\ err = "ValueError" => (pc = "aborted" /\ BadRowHit)

\* the first input gene does not match the unparseable row and passes it by,
\* the second one matches it and the call raises
C4_Witness ==
    /\ pc = "aborted" /\ err = "ValueError"
    /\ Len(genes) = 2 /\ genes[1] = <<Quote, "A">> /\ genes[2] = <<"a">>
    /\ Len(RRows) = 1 /\ Unparseable(RRows[1])

\* the run completes although the reference file has an unparseable row,
\* because no input gene matches it
C4_SkippedWitness ==
    /\ pc = "done"
    /\ Len(genes) = 2
    /\ \E j \in 1..Len(RRows) : Unparseable(RRows[j])
    /\ \E j \in 1..Len(RRows) : Expressed(RRows[j])

\* C5: the output file is written only after extraction, annotation and the
\* merge loop have completed; when a stage fails (missing input file, cluster
\* line with fewer than 8 fields, unparseable expression) the run aborts with
\* the output file as it was and 'end' not printed.
C5_NoPartialOutput ==
    [][ /\ (out_file' # out_file) => (pc = "merge" /\ pc' = "end" /\ err' = "")
        /\ (pc' = "aborted") => (out_file' = out_file /\ stdout' = <<"start">>
                                    /\ err' # "")
        /\ (pc = "extract" /\ ~ClusterShapeOk) => pc' = "aborted"
        /\ (pc = "annotate" /\ ~annot_file.exists) => pc' = "aborted"
        /\ (pc = "annotate" /\ BadRowHit) => pc' = "aborted"
        /\ (pc' \in {"end", "done"}) => out_file'.exists
        /\ (\E n \in 1..Len(stdout') : stdout'[n] = "end") => pc' = "done"
      ]_vars

C5_Witness ==
    /\ pc = "aborted" /\ err = "ValueError"
    /\ out_file = OldFile
    /\ stdout = <<"start">>

C5_MalformedLineWitness ==
    /\ pc = "aborted" /\ err = "IndexError"
    /\ out_file = NoFile
    /\ stdout = <<"start">>

\* both files exist, every cluster line has 8 fields or more, every reference
\* row has 4 fields and a numeric expression
WellFormed ==
    /\ ClusterShapeOk
    /\ annot_file.exists
    /\ LET rr == RRows
       IN  \A j \in 1..Len(rr) : Len(rr[j]) >= 4 /\ Tenths(rr[j][4]) >= 0

\* C6: for well-formed inputs a cluster gene with no gene-matching reference
\* row of expression >= 1.0 contributes no MergedRow, and the run still
\* completes: every statement of the __main__ block hands over to the next,
\* the output file is written (empty when nothing matches) and 'end' printed.
C6_EmptyMatchSet ==
    [][ WellFormed =>
          /\ pc = "start" => pc' = "extract"
          /\ pc = "extract" => pc' = "annotate"
          /\ pc = "annotate" => pc' = "merge"
          /\ pc = "merge" =>
                LET cr == CRows
                    rr == RRows
                IN  /\ pc' = "end"
                    /\ out_file'.exists
                    /\ \A i \in 1..Len(cr) :
                          M(rr, CGene(cr[i])) = 0 =>
                              CountField(final_list_excel_version', 2, CGene(cr[i])) = 0
                    /\ (\A i \in 1..Len(cr) : M(rr, CGene(cr[i])) = 0) =>
                           out_file'.text = <<>>
          /\ pc = "end" =>
                /\ pc' = "done"
                /\ stdout' = <<"start", "end">>
                /\ out_file' = out_file
      ]_vars

C6_Witness ==
    /\ WellFormed /\ pc = "done"
    /\ Len(CRows) = 2 /\ CGene(CRows[1]) = <<"A">> /\ CGene(CRows[2]) = <<"a">>
    /\ Len(RRows) = 2
    /\ RRows[1][2] = <<"A">> /\ Tenths(RRows[1][4]) = 5
    /\ RRows[2][2] = <<"a">> /\ Tenths(RRows[2][4]) = 25
    /\ out_file = [exists |-> TRUE, text |-> <<>>]
    /\ stdout = <<"start", "end">>

\* C9: i_m_annotating emits a MergedRow for a (ClusterRow, AnnotationRow) pair
\* if and only if the quote-stripped field 7 of the ClusterRow is the very
\* string the AnnotationRow stores; rows whose genes differ in letter case do
\* not join, and every MergedRow's gene is some ClusterRow's stripped gene.
C9_CaseSensitiveJoin ==
    Merged =>
        LET cr == CRows
            pairs == {p \in (1..Len(cr)) \X (1..Len(genes_tissues)) :
                         CGene(cr[p[1]]) = genes_tissues[p[2]][1]}
        IN  /\ Len(final_list_excel_version) = Cardinality(pairs)
            /\ \A p \in pairs :
                  LET row == final_list_excel_version[Rank(p, pairs)]
                  IN  /\ row[1] = StripQ(cr[p[1]][7])
                      /\ row[2] = CGene(cr[p[1]])
                      /\ row[3] = StripQ(cr[p[1]][6])
                      /\ row[4] = genes_tissues[p[2]][2]
            /\ \A n \in 1..Len(final_list_excel_version) :
                  \E i \in 1..Len(cr) : final_list_excel_version[n][2] = CGene(cr[i])

C9_Witness ==
    /\ pc = "done"
    /\ Len(CRows) = 2 /\ CGene(CRows[1]) = <<"A">> /\ CGene(CRows[2]) = <<"a">>
    /\ Len(genes_tissues) = 2
    /\ genes_tissues[1][1] = <<"A">> /\ genes_tissues[2][1] = <<"a">>
    /\ Len(final_list_excel_version) = 2
    /\ final_list_excel_version[1][2] = <<"A">>
    /\ final_list_excel_version[2][1] = <<Quote, "c">>

RECURSIVE SumJoined(_, _)
\* the sum, over the first n cluster rows, of the AnnotationRows that store
\* the row's stripped gene
SumJoined(cr, n) ==
    IF n = 0 THEN 0
    ELSE SumJoined(cr, n - 1) + CountField(genes_tissues, 1, CGene(cr[n]))

\* C10: the gene list is not de-duplicated: a gene spelled the same in k
\* cluster rows with m qualifying reference rows yields k * m AnnotationRows
\* and k * k * m output rows; the output has as many rows as the sum, over
\* cluster rows, of the AnnotationRows storing that row's stripped gene.
C10_NoDeduplication ==
    pc = "done" =>
        LET cr == CRows
            rr == RRows
        IN  /\ \A i \in 1..Len(cr) :
                  LET g == CGene(cr[i])
                      k == K(cr, g)
                      m == M(rr, g)
                  IN  /\ CountField(genes_tissues, 1, g) = k * m
                      /\ CountField(final_list_excel_version, 2, g) = k * k * m
            /\ Len(final_list_excel_version) = SumJoined(cr, Len(cr))

C10_Witness ==
    /\ pc = "done"
    /\ Len(CRows) = 2 /\ CGene(CRows[1]) = <<"A">> /\ CGene(CRows[2]) = <<"A">>
    /\ CRows[1][7] # CRows[2][7]
    /\ M(RRows, <<"A">>) = 2
    /\ Len(genes_tissues) = 4
    /\ Len(final_list_excel_version) = 8

====
